---- MODULE Spec2Model ----
(***************************************************************************)
(* Pick/waveform reconciliation of jsaul/scexamples: the streaming client  *)
(* (StreamBufferApp / WaveformDumperApp), the buffering client             *)
(* (BufferingStreamApplication / PickWaveformDumperApp) and the polling    *)
(* client (App of polling-pick-client.py).                                 *)
(*                                                                         *)
(* Every handler runs to completion on the application's single event      *)
(* loop, so each handler is one atomic action.  An exception that leaves a *)
(* handler is caught nowhere in the clients: it ends the run, with the     *)
(* state as it was when the exception was raised (err).                    *)
(*                                                                         *)
(* RequestItem objects have identity: two items built from the same pick   *)
(* are different objects.  items is the heap, by object id in creation     *)
(* order; the indices hold object ids.                                     *)
(*                                                                         *)
(* PickWaveformDumperApp.processPick ends in a dangling "else:"; it is     *)
(* read as an empty branch.                                                *)
(***************************************************************************)
EXTENDS Integers, Sequences, FiniteSets, TLC

VARIABLES
    now,              \* seiscomp.core.Time.GMT(), seconds
    next_cleanup,     \* self.next_cleanup
    buffer,           \* self.buffer:          nslc -> comp -> list of records
    end_time,         \* self.end_time:        nslc -> comp -> time
    request,          \* self.request:         pick ID -> RequestItem (object id)
    request_keys,     \* the keys of self.request in insertion order (the
                      \* polling client iterates over the dict; the other
                      \* clients never do, and leave this empty)
    request_by_nslc,  \* self.request_by_nslc: nslc -> list of RequestItem (object id)
    items,            \* the RequestItem objects created so far, by object id
    exported,         \* the processData calls so far (object ids, in call order)
    err,              \* "none", or the exception that ended the run
    nrecs,            \* records delivered so far
    fetches,          \* fetchArchiveData calls so far
    archive,          \* the components the archive holds records of
    fetching          \* the request fetchArchiveData is waiting for the
                      \* archive's answer on (object id), 0 when none

vars == <<now, next_cleanup, buffer, end_time, request, request_keys,
          request_by_nslc, items, exported, err, nrecs, fetches, archive,
          fetching>>

(***************************** configuration *******************************)

buffer_length == 3600
before_p == 120
after_p == 240
expire_after == 1800
cleanup_interval == 120

(******************************** bounds ***********************************)

MaxPicks == 3
MaxBufferingPicks == 2
MaxRecords == 3
MaxNow == 5640

\* the clock at construction, and the steps it advances by between handlers
\* (a step passes a cleanup interval and an expiry deadline)
StartTime == 3600
TickSteps == {1920}

(*************************** the environment *******************************)

\* scstuff.inventory.streamComponents: the components of each known stream.
\* The clients take whatever list the inventory gives for a stream; S3 is
\* listed without a component.
components == [S1 |-> {"Z", "N", "E"}, S2 |-> {"Z"}, S3 |-> {}]

\* The picks the messaging may deliver: publicID, stream of the waveformID
\* (already reduced to the nslc key), pick time.  "SX" is in no inventory.
Picks ==
    { [id |-> "p1", nslc |-> "S1", time |-> 3000],
      [id |-> "p2", nslc |-> "S1", time |-> 3000],
      [id |-> "p3", nslc |-> "S1", time |-> 3600],
      [id |-> "p4", nslc |-> "SX", time |-> 3000] }

\* a pick of the stream the inventory lists without a component
BarePicks == { [id |-> "p5", nslc |-> "S3", time |-> 3000] }

\* two picks of one stream ten seconds apart (two phases at one station):
\* at the start time the first is 245 s old, the second 235 s
ClosePicks ==
    { [id |-> "p6", nslc |-> "S2", time |-> 3355],
      [id |-> "p7", nslc |-> "S2", time |-> 3365] }

Rec(k, c, st, et) == [nslc |-> k, comp |-> c, startTime |-> st, endTime |-> et]

\* The records the record stream may deliver, in any order and repeatedly.
RecordFeed ==
    { Rec("S1", "Z", 3120, 3240), Rec("S1", "N", 3120, 3240),
      Rec("S1", "E", 3120, 3240),
      Rec("S1", "Z", 2640, 2760), Rec("S1", "Z", 7080, 7200),
      Rec("S2", "Z", 3120, 3240) }

(******************************* helpers ***********************************)

\* d[k] = v on a dict
Put(d, k, v) == [x \in (DOMAIN d) \cup {k} |-> IF x = k THEN v ELSE d[x]]

\* del d[k] on a dict (the caller raises KeyError when k is absent)
Del(d, k) == [x \in (DOMAIN d) \ {k} |-> d[x]]

EmptyDict == [x \in {} |-> 0]

\* a remove that leaves the list as it is
RemoveNothing(lst, x) == lst

\* list.remove(x): drops the first element equal to x
RECURSIVE RemoveFirst(_, _)
RemoveFirst(lst, x) ==
    IF lst = <<>> THEN <<>>
    ELSE IF Head(lst) = x THEN Tail(lst)
    ELSE <<Head(lst)>> \o RemoveFirst(Tail(lst), x)

InList(lst, x) == \E i \in 1..Len(lst) : lst[i] = x

RECURSIVE SumLen(_, _)
SumLen(d, ks) ==
    IF ks = {} THEN 0
    ELSE LET k == CHOOSE x \in ks : TRUE
         IN Len(d[k]) + SumLen(d, ks \ {k})

RECURSIVE MinOf(_)
MinOf(S) ==
    LET x == CHOOSE y \in S : TRUE
    IN IF S = {x} THEN x
       ELSE LET m == MinOf(S \ {x}) IN IF x < m THEN x ELSE m

(******************************** Init *************************************)

Start ==
    /\ now = StartTime
    /\ next_cleanup = StartTime + cleanup_interval
    /\ buffer = EmptyDict
    /\ end_time = EmptyDict
    /\ request = EmptyDict
    /\ request_keys = <<>>
    /\ request_by_nslc = EmptyDict
    /\ items = <<>>
    /\ exported = <<>>
    /\ err = "none"
    /\ nrecs = 0
    /\ fetches = 0
    /\ fetching = 0

\* the streaming client has no archive
Init == Start /\ archive = {}

(************************** record ingest **********************************)

\* self.buffer after the record is stored
StoreRecord(buf, rec) ==
    LET k == rec.nslc
        bk == IF k \in DOMAIN buf THEN buf[k] ELSE EmptyDict
        lst == IF rec.comp \in DOMAIN bk THEN bk[rec.comp] ELSE <<>>
    IN Put(buf, k, Put(bk, rec.comp, Append(lst, rec)))

\* an end time that follows the latest record
LatestEndTime(old, t) == t

\* the end time kept for a component that already has one
NewEndTime(old, t) == IF t > old THEN t ELSE old

\* self.end_time after the record is stored
UpdateEndTime(et, rec) ==
    LET k == rec.nslc
        ek == IF k \in DOMAIN et THEN et[k] ELSE EmptyDict
        t == IF rec.comp \in DOMAIN ek
             THEN NewEndTime(ek[rec.comp], rec.endTime)
             ELSE rec.endTime
    IN Put(et, k, Put(ek, rec.comp, t))

(***************************** buffer trim *********************************)

\* the trim limit of a buffer of length zero
TrimStartOfNoSpan(bk) ==
    MinOf({ bk[c][Len(bk[c])].endTime : c \in DOMAIN bk })

\* cleanup_stream: the earliest of the last records' end times, minus the
\* buffer length; every record ending at or before that is dropped.
TrimStart(bk) ==
    MinOf({ bk[c][Len(bk[c])].endTime : c \in DOMAIN bk }) - buffer_length

\* a trim that keeps only what ends after the earliest last record
KeepNewest(r, start_time) == r.endTime > start_time + buffer_length

KeepRecord(r, start_time) == r.endTime > start_time

cleanup_stream(bk) ==
    LET start_time == TrimStart(bk)
    IN [c \in DOMAIN bk |->
            SelectSeq(bk[c], LAMBDA r : KeepRecord(r, start_time))]

\* buffer[nslc][comp][-1] of an empty list raises IndexError
TrimFails(buf) == \E k \in DOMAIN buf : \E c \in DOMAIN buf[k] : buf[k][c] = <<>>

CleanupDue(t) == ~(t < next_cleanup)

\* cleanup_all: [buffer, next_cleanup, err]
cleanup_all(buf, nc) ==
    IF ~CleanupDue(now)
    THEN [buffer |-> buf, next_cleanup |-> nc, err |-> "none"]
    ELSE IF TrimFails(buf)
    THEN [buffer |-> buf, next_cleanup |-> nc, err |-> "IndexError"]
    ELSE [buffer |-> [k \in DOMAIN buf |-> cleanup_stream(buf[k])],
          next_cleanup |-> now + cleanup_interval,
          err |-> "none"]

(************************* completion matching *****************************)

\* The test of handleRecord: no component that has an end time is behind
\* the end of the request's window.
Finished(etk, item) == \A c \in DOMAIN etk : ~(etk[c] < item.end_time)

\* an overlap test that looks at the record's end only
EndsInWindow(r, item) == r.endTime >= item.start_time

Overlaps(r, item) ==
    r.endTime >= item.start_time /\ r.startTime <= item.end_time

\* request_item.data of a finished request
ExtractData(bk, item) ==
    [c \in DOMAIN bk |-> SelectSeq(bk[c], LAMBDA r : Overlaps(r, item))]

\* the count of WaveformDumperApp.processData
CountsAgree(req, rbn) == Cardinality(DOMAIN req) = SumLen(rbn, DOMAIN rbn)

\* WaveformDumperApp.processData: the hand-off, then the assertion
processData(st, o) ==
    LET st1 == [st EXCEPT !.exported = Append(@, o)]
    IN IF CountsAgree(st1.request, st1.rbn) THEN st1
       ELSE [st1 EXCEPT !.err = "AssertionError"]

\* The records the archive streams back for one request: for each requested
\* component the archive holds (avail), one record spanning the window.
ArchiveRecords(item, avail) ==
    [c \in item.components |->
        IF c \in avail
        THEN <<Rec(item.nslc, c, item.start_time, item.end_time)>>
        ELSE <<>>]

\* a fetch that replaces the data of the request by what the archive returned
fetchReplacing(item, avail) ==
    [item EXCEPT !.data = ArchiveRecords(item, avail), !.finished = TRUE]

\* PickWaveformDumperApp.fetchArchiveData for a single request: every
\* required component gets an entry, the archive's records are appended,
\* the request is marked finished.
fetchArchiveData(item, avail) ==
    LET got == ArchiveRecords(item, avail)
        d0 == [c \in (DOMAIN item.data) \cup item.components |->
                  IF c \in DOMAIN item.data THEN item.data[c] ELSE <<>>]
        d1 == [c \in DOMAIN d0 |->
                  IF c \in item.components THEN d0[c] \o got[c] ELSE d0[c]]
    IN [item EXCEPT !.data = d1, !.finished = TRUE]

\* a completeness test that looks for absent components only
IncompleteIfAbsent(item) ==
    \E c \in item.components : c \notin DOMAIN item.data

\* the completeness test of PickWaveformDumperApp.processData
Incomplete(item) ==
    \E c \in item.components :
        c \notin DOMAIN item.data \/ item.data[c] = <<>>

\* PickWaveformDumperApp.processData: archive fetch when a required
\* component is missing or empty, the hand-off, then the assertion
B_processData(st, o, avail) ==
    LET st0 == IF Incomplete(st.items[o])
               THEN [st EXCEPT !.items[o] = fetchArchiveData(@, avail),
                               !.fetches = @ + 1]
               ELSE st
        st1 == [st0 EXCEPT !.exported = Append(@, o)]
    IN IF CountsAgree(st1.request, st1.rbn) THEN st1
       ELSE [st1 EXCEPT !.err = "AssertionError"]

\* the index the for loop of handleRecord reads next, after the body for
\* index i removed the element at i from the list it iterates
NextIndex(i) == i + 1

\* How a client runs processData: on = the buffering client with its archive
\* (avail), asserts = the assert statement is executed (it is not when
\* Python runs with -O).
NoArchive == [on |-> FALSE, avail |-> {}, asserts |-> TRUE]
Archive(avail) == [on |-> TRUE, avail |-> avail, asserts |-> TRUE]
NoAsserts == [on |-> FALSE, avail |-> {}, asserts |-> FALSE]

\* WaveformDumperApp.processData with the assert statement compiled away
processDataOptimized(st, o) == [st EXCEPT !.exported = Append(@, o)]

\* The loop of handleRecord over self.request_by_nslc[nslc], by list index
\* as Python's list iterator runs it (the same text in the streaming and in
\* the buffering client; arch.on selects the buffering client's
\* processData).
RECURSIVE MatchLoop(_, _, _, _, _, _)
MatchLoop(i, k, etk, bk, st, arch) ==
    IF st.err # "none" \/ i > Len(st.rbn[k]) THEN st
    ELSE
      LET o == st.rbn[k][i]
          item == st.items[o]
      IN IF ~Finished(etk, item) THEN MatchLoop(i + 1, k, etk, bk, st, arch)
         ELSE
           LET st1 == [st EXCEPT !.items[o].finished = TRUE,
                                 !.items[o].data = ExtractData(bk, item)]
               st2 == IF arch.on THEN B_processData(st1, o, arch.avail)
                      ELSE IF arch.asserts THEN processData(st1, o)
                      ELSE processDataOptimized(st1, o)
           IN IF st2.err # "none" THEN st2
              ELSE
                LET st3 == [st2 EXCEPT !.rbn[item.nslc] = RemoveFirst(@, o)]
                IN IF item.pick \notin DOMAIN st3.request
                   THEN [st3 EXCEPT !.err = "KeyError"]
                   ELSE MatchLoop(NextIndex(i), k, etk, bk,
                            [st3 EXCEPT !.request = Del(@, item.pick)], arch)

MatchState ==
    [rbn |-> request_by_nslc, request |-> request, items |-> items,
     exported |-> exported, err |-> "none", fetches |-> fetches]

\* StreamBufferApp.handleRecord, with the processData of the run
HandleRecordAs(rec, mode) ==
    /\ err = "none"
    /\ nrecs < MaxRecords
    /\ nrecs' = nrecs + 1
    /\ LET k == rec.nslc
           buf1 == StoreRecord(buffer, rec)
           et1 == UpdateEndTime(end_time, rec)
       IN /\ end_time' = et1
          /\ IF k \notin DOMAIN request_by_nslc
             THEN /\ buffer' = buf1
                  /\ UNCHANGED <<next_cleanup, request, request_by_nslc,
                                 items, exported, err>>
             ELSE LET st == MatchLoop(1, k, et1[k], buf1[k], MatchState, mode)
                      cl == IF st.err = "none"
                            THEN cleanup_all(buf1, next_cleanup)
                            ELSE [buffer |-> buf1, next_cleanup |-> next_cleanup,
                                  err |-> st.err]
                  IN /\ buffer' = cl.buffer
                     /\ next_cleanup' = cl.next_cleanup
                     /\ request' = st.request
                     /\ request_by_nslc' = st.rbn
                     /\ items' = st.items
                     /\ exported' = st.exported
                     /\ err' = cl.err
    /\ UNCHANGED <<now, fetches, archive, request_keys, fetching>>

\* StreamBufferApp.handleRecord in WaveformDumperApp
S_HandleRecord(rec) == HandleRecordAs(rec, NoArchive)

\* the same, run with python -O
O_HandleRecord(rec) == HandleRecordAs(rec, NoAsserts)

(**************************** pick registration ****************************)

NewItem(p, created) ==
    [pick |-> p.id, nslc |-> p.nslc, components |-> components[p.nslc],
     start_time |-> p.time - before_p, end_time |-> p.time + after_p,
     expires |-> created + expire_after, finished |-> FALSE,
     data |-> EmptyDict]

\* self.request after processPick stored the new item under the pick ID
RegisterByPick(req, pid, o) == Put(req, pid, o)

\* self.request_by_nslc after processPick appended the new item
RegisterByKey(rbn, k, o) ==
    Put(rbn, k, Append(IF k \in DOMAIN rbn THEN rbn[k] ELSE <<>>, o))

\* StreamBufferApp.processPick
S_ProcessPick(p) ==
    /\ err = "none"
    /\ IF p.nslc \notin DOMAIN components
       THEN UNCHANGED <<request, request_by_nslc, items>>
       ELSE LET o == Len(items) + 1
            IN /\ Len(items) < MaxPicks
               /\ items' = Append(items, NewItem(p, now))
               /\ request' = RegisterByPick(request, p.id, o)
               /\ request_by_nslc' = RegisterByKey(request_by_nslc, p.nslc, o)
    /\ UNCHANGED <<now, next_cleanup, buffer, end_time, exported, err, nrecs,
                   fetches, archive, request_keys, fetching>>

(************************** the buffering client ***************************)

\* what the archive may hold of a stream during a run
ArchiveAnswers == { {}, {"Z", "N"}, {"Z", "N", "E"} }

\* PickWaveformDumperApp.handleRecord: the base class stores the record and
\* trims, then the matching loop, then the trim again.
B_HandleRecord(rec) ==
    /\ err = "none"
    /\ nrecs < MaxRecords
    /\ nrecs' = nrecs + 1
    /\ LET k == rec.nslc
           buf1 == StoreRecord(buffer, rec)
           et1 == UpdateEndTime(end_time, rec)
           cl1 == cleanup_all(buf1, next_cleanup)
       IN /\ end_time' = et1
          /\ IF cl1.err # "none" \/ k \notin DOMAIN request_by_nslc
             THEN /\ buffer' = cl1.buffer
                  /\ next_cleanup' = cl1.next_cleanup
                  /\ err' = cl1.err
                  /\ UNCHANGED <<request, request_by_nslc, items, exported,
                                 fetches>>
             ELSE LET st == MatchLoop(1, k, et1[k], cl1.buffer[k], MatchState,
                                      Archive(archive))
                      cl2 == IF st.err = "none"
                             THEN cleanup_all(cl1.buffer, cl1.next_cleanup)
                             ELSE [buffer |-> cl1.buffer,
                                   next_cleanup |-> cl1.next_cleanup,
                                   err |-> st.err]
                  IN /\ buffer' = cl2.buffer
                     /\ next_cleanup' = cl2.next_cleanup
                     /\ request' = st.request
                     /\ request_by_nslc' = st.rbn
                     /\ items' = st.items
                     /\ exported' = st.exported
                     /\ fetches' = st.fetches
                     /\ err' = cl2.err
    /\ UNCHANGED <<now, archive, request_keys, fetching>>

\* a routing test against the whole buffer length
OlderThanBuffer(item, etk) ==
    item.end_time < MinOf({ etk[c] : c \in DOMAIN etk }) - buffer_length

\* the routing test of PickWaveformDumperApp.processPick
StaleWindow(item, etk) ==
    item.end_time < MinOf({ etk[c] : c \in DOMAIN etk }) - (buffer_length \div 2)

RouteToArchive(item, et) ==
    IF item.nslc \notin DOMAIN et THEN TRUE ELSE StaleWindow(item, et[item.nslc])

\* a pick of an unknown stream that is sent to the archive all the same
B_FetchUnknown ==
    UNCHANGED <<request, request_by_nslc, items>> /\ fetches' = fetches + 1

\* the return of processPick for a stream that is not in self.components
B_SkipPick == UNCHANGED <<request, request_by_nslc, items, fetches>>

\* PickWaveformDumperApp.processPick
B_ProcessPick(p) ==
    /\ err = "none"
    /\ IF p.nslc \notin DOMAIN components
       THEN B_SkipPick
       ELSE LET o == Len(items) + 1
                item == NewItem(p, now)
            IN /\ Len(items) < MaxBufferingPicks
               /\ request' = RegisterByPick(request, p.id, o)
               /\ request_by_nslc' = RegisterByKey(request_by_nslc, p.nslc, o)
               /\ IF RouteToArchive(item, end_time)
                  THEN /\ items' = Append(items, fetchArchiveData(item, archive))
                       /\ fetches' = fetches + 1
                  ELSE /\ items' = Append(items, item)
                       /\ UNCHANGED fetches
    /\ UNCHANGED <<now, next_cleanup, buffer, end_time, exported, err, nrecs,
                   archive, request_keys, fetching>>

(********** the buffering client, with the archive request as a step *******)

\* A handler runs on the one thread of the application.  In
\* fetchArchiveData that thread waits in the record iterator until the
\* archive has answered or the stream has timed out; fetching is the request
\* it waits for, and no handler starts before the call has returned.

\* PickWaveformDumperApp.processPick up to its call of fetchArchiveData
W_PickCalls(p) ==
    /\ err = "none"
    /\ fetching = 0
    /\ IF p.nslc \notin DOMAIN components
       THEN B_SkipPick /\ UNCHANGED fetching
       ELSE LET o == Len(items) + 1
                item == NewItem(p, now)
            IN /\ Len(items) < MaxBufferingPicks
               /\ request' = RegisterByPick(request, p.id, o)
               /\ request_by_nslc' = RegisterByKey(request_by_nslc, p.nslc, o)
               /\ items' = Append(items, item)
               /\ fetching' = IF RouteToArchive(item, end_time) THEN o ELSE 0
               /\ UNCHANGED fetches
    /\ UNCHANGED <<now, next_cleanup, buffer, end_time, exported, err, nrecs,
                   archive, request_keys>>

\* fetchArchiveData returns to processPick, which returns
W_FetchReturns ==
    /\ err = "none"
    /\ fetching # 0
    /\ items' = [items EXCEPT ![fetching] = fetchArchiveData(@, archive)]
    /\ fetches' = fetches + 1
    /\ fetching' = 0
    /\ UNCHANGED <<now, next_cleanup, buffer, end_time, request, request_keys,
                   request_by_nslc, exported, err, nrecs, archive>>

\* PickWaveformDumperApp.handleRecord, started when the thread is free
W_HandleRecord(rec) == fetching = 0 /\ B_HandleRecord(rec)

(*************************** the polling client ****************************)

\* The records the record stream server may hold of the requested windows.
\* A sweep receives those of them that it asked for and that arrive before
\* the stream times out.
PollFeed ==
    { Rec("S1", "Z", 3120, 3240), Rec("S1", "N", 3120, 3240),
      Rec("S1", "E", 3120, 3240), Rec("S1", "Z", 3000, 3120) }

\* The records of the one-component stream.  A sweep reads the clock when
\* it starts (line 60) and the records afterwards, while it waits on the
\* stream (lines 94-112): the last record ends six seconds after the start
\* time.
CloseFeed ==
    { Rec("S2", "Z", 3240, 3590), Rec("S2", "Z", 3590, 3606) }

RECURSIVE MaxOf(_)
MaxOf(S) ==
    LET x == CHOOSE y \in S : TRUE
    IN IF S = {x} THEN x
       ELSE LET m == MaxOf(S \ {x}) IN IF x > m THEN x ELSE m

\* the RequestItem of App.processPick (it has no data attribute)
PollItem(p, created) ==
    [pick |-> p.id, nslc |-> p.nslc, components |-> components[p.nslc],
     start_time |-> p.time - before_p, end_time |-> p.time + after_p,
     expires |-> created + expire_after, finished |-> FALSE]

\* the keys of self.request after self.request[pickID] = request_item
KeysAfterPut(keys, req, pid) ==
    IF pid \in DOMAIN req THEN keys ELSE Append(keys, pid)

\* App.processPick
P_ProcessPick(p) ==
    /\ err = "none"
    /\ IF p.nslc \notin DOMAIN components
       THEN UNCHANGED <<request, request_keys, items>>
       ELSE LET o == Len(items) + 1
            IN /\ Len(items) < MaxPicks
               /\ items' = Append(items, PollItem(p, now))
               /\ request' = Put(request, p.id, o)
               /\ request_keys' = KeysAfterPut(request_keys, request, p.id)
    /\ UNCHANGED <<now, next_cleanup, buffer, end_time, request_by_nslc,
                   exported, err, nrecs, fetches, archive, fetching>>

\* pt(i.pick)
PickTime(item) ==
    (CHOOSE p \in Picks \cup BarePicks \cup ClosePicks : p.id = item.pick).time

Due(item, t) == t - PickTime(item) > after_p

\* request_items_due, as object ids
RequestItemsDue(req, its, t) ==
    { req[pid] : pid \in { q \in DOMAIN req : Due(its[req[q]], t) } }

\* a sweep that asks for every request object created so far
QueryAll(its, due) ==
    UNION { { <<its[o].nslc, c, its[o].start_time, its[o].end_time>> :
                c \in its[o].components } : o \in 1..Len(its) }

\* the streams and time windows the sweep adds to the record stream
Query(its, due) ==
    UNION { { <<its[o].nslc, c, its[o].start_time, its[o].end_time>> :
                c \in its[o].components } : o \in due }

\* the record is of a stream and time window the sweep asked for
Requested(r, its, due) ==
    \E q \in Query(its, due) :
        /\ r.nslc = q[1]
        /\ r.comp = q[2]
        /\ r.endTime > q[3]
        /\ r.startTime < q[4]

\* the local end_time of processPendingPicks after the record loop
PollEndTime(recs) ==
    [k \in { r.nslc : r \in recs } |->
        [c \in { r.comp : r \in { q \in recs : q.nslc = k } } |->
            MaxOf({ r.endTime : r \in { q \in recs : q.nslc = k /\ q.comp = c } })]]

\* a completion test that looks only at the components that returned records
PollFinishedOfSeen(et, item) ==
    /\ item.nslc \in DOMAIN et
    /\ \A c \in DOMAIN et[item.nslc] : ~(et[item.nslc][c] < item.end_time)

\* the completion test of processPendingPicks
PollFinished(et, item) ==
    /\ item.nslc \in DOMAIN et
    /\ \A c \in item.components :
          /\ c \in DOMAIN et[item.nslc]
          /\ ~(et[item.nslc][c] < item.end_time)

\* every RequestItem object created so far
AllCreated(req) == 1..Len(items)

\* the request items the finished loop looks at: those of self.request
SweepCandidates(req) == { req[pid] : pid \in DOMAIN req }

Expired(item, t) == t > item.expires

\* the logging loop over the components of an expired request
ExpiredLogFails(et, item) ==
    item.components # {} /\ item.nslc \notin DOMAIN et

\* The loop over expired_request_items, in the order of the dict:
\* [request, keys, err]
RECURSIVE ExpireLoop(_, _, _, _)
ExpireLoop(todo, et, its, st) ==
    IF todo = <<>> \/ st.err # "none" THEN st
    ELSE LET pid == Head(todo)
         IN IF ExpiredLogFails(et, its[st.request[pid]])
            THEN [st EXCEPT !.err = "KeyError"]
            ELSE ExpireLoop(Tail(todo), et, its,
                    [st EXCEPT !.request = Del(@, pid),
                               !.keys = RemoveFirst(@, pid)])

\* App.processPendingPicks (handleTimeout), with the records the stream
\* server holds
P_Sweep(held) ==
    /\ err = "none"
    /\ LET due == RequestItemsDue(request, items, now)
           recs == { r \in held : Requested(r, items, due) }
           et == PollEndTime(recs)
           done == { o \in SweepCandidates(request) :
                        PollFinished(et, items[o]) }
           its1 == [o \in 1..Len(items) |->
                      IF o \in done
                      THEN [items[o] EXCEPT !.finished = TRUE]
                      ELSE items[o]]
           fin == { pid \in DOMAIN request : request[pid] \in done }
           req1 == [pid \in (DOMAIN request) \ fin |-> request[pid]]
           keys1 == SelectSeq(request_keys, LAMBDA pid : pid \notin fin)
           todo == SelectSeq(keys1, LAMBDA pid : Expired(its1[req1[pid]], now))
           st == ExpireLoop(todo, et, its1,
                            [request |-> req1, keys |-> keys1, err |-> "none"])
       IN /\ items' = its1
          /\ request' = st.request
          /\ request_keys' = st.keys
          /\ err' = st.err
    /\ UNCHANGED <<now, next_cleanup, buffer, end_time, request_by_nslc,
                   exported, nrecs, fetches, archive, fetching>>

(********* the buffering client's fetchArchiveData given a list ***********)

\* fetchArchiveData takes "a single RequestItem or a list thereof".  The
\* client itself passes single requests; the list form is exercised here
\* by a caller that makes request items as processPick makes them and hands
\* all of them over in one call.

\* request_items_by_nslc: the dict comprehension keeps, for each stream,
\* the last request of the list that names it
request_items_by_nslc(its) ==
    [k \in { its[i].nslc : i \in 1..Len(its) } |->
        MaxOf({ i \in 1..Len(its) : its[i].nslc = k })]

\* the records of stream k, component c that the archive streams back for
\* the windows added by the requests i.. of the list, in the order added
RECURSIVE StreamAnswer(_, _, _, _, _)
StreamAnswer(its, i, k, c, avail) ==
    IF i > Len(its) THEN <<>>
    ELSE (IF its[i].nslc = k /\ c \in its[i].components
          THEN ArchiveRecords(its[i], avail)[c]
          ELSE <<>>) \o StreamAnswer(its, i + 1, k, c, avail)

\* fetchArchiveData for a list: every request gets an entry per required
\* component, every record is appended to the request its stream maps to,
\* every request is marked finished
fetchArchiveBatch(its, avail) ==
    [i \in 1..Len(its) |->
        LET item == its[i]
            d0 == [c \in (DOMAIN item.data) \cup item.components |->
                      IF c \in DOMAIN item.data THEN item.data[c] ELSE <<>>]
            mapped == request_items_by_nslc(its)[item.nslc] = i
            d1 == [c \in DOMAIN d0 |->
                      IF mapped /\ c \in item.components
                      THEN d0[c] \o StreamAnswer(its, 1, item.nslc, c, avail)
                      ELSE d0[c]]
        IN [item EXCEPT !.data = d1, !.finished = TRUE]]

\* the picks of streams the inventory knows
KnownPicks == { p \in Picks \cup ClosePicks : p.nslc \in DOMAIN components }

\* the caller makes a request item for a pick (as processPick, lines
\* 408-416) and puts it on its list
L_NewRequest(p) ==
    /\ err = "none"
    /\ fetches = 0
    /\ Len(items) < MaxPicks
    /\ items' = Append(items, NewItem(p, now))
    /\ UNCHANGED <<now, next_cleanup, buffer, end_time, request, request_keys,
                   request_by_nslc, exported, err, nrecs, fetches, archive,
                   fetching>>

\* the caller hands its list to fetchArchiveData
L_FetchList ==
    /\ err = "none"
    /\ fetches = 0
    /\ items # <<>>
    /\ items' = fetchArchiveBatch(items, archive)
    /\ fetches' = 1
    /\ UNCHANGED <<now, next_cleanup, buffer, end_time, request, request_keys,
                   request_by_nslc, exported, err, nrecs, archive, fetching>>

(********************************* time ************************************)

Tick(d) ==
    /\ err = "none"
    /\ now + d <= MaxNow
    /\ now' = now + d
    /\ UNCHANGED <<next_cleanup, buffer, end_time, request, request_keys,
                   request_by_nslc, items, exported, err, nrecs, fetches,
                   archive, fetching>>

(*************************** specifications ********************************)

StreamingRecord == \E rec \in RecordFeed : S_HandleRecord(rec)
StreamingPick == \E p \in Picks : S_ProcessPick(p)
Advance == \E d \in TickSteps : Tick(d)

NextStreaming == StreamingRecord \/ StreamingPick \/ Advance

SpecStreaming == Init /\ [][NextStreaming]_vars

\* the streaming client run with python -O
OptimizedRecord == \E rec \in RecordFeed : O_HandleRecord(rec)

NextOptimized == OptimizedRecord \/ StreamingPick \/ Advance

SpecOptimized == Init /\ [][NextOptimized]_vars

InitBuffering == Start /\ archive \in ArchiveAnswers

BufferingRecord == \E rec \in RecordFeed : B_HandleRecord(rec)
BufferingPick == \E p \in Picks : B_ProcessPick(p)

NextBuffering == BufferingRecord \/ BufferingPick \/ Advance

SpecBuffering == InitBuffering /\ [][NextBuffering]_vars

PollingPick == \E p \in Picks : P_ProcessPick(p)
PollingSweep == \E held \in SUBSET PollFeed : P_Sweep(held)

NextPolling == PollingPick \/ PollingSweep \/ Advance

SpecPolling == Init /\ [][NextPolling]_vars

\* the polling client when picks of the stream without components arrive too
BarePollingPick == \E p \in Picks \cup BarePicks : P_ProcessPick(p)

\* fetchArchiveData called with a list of requests
BatchRequest == \E p \in KnownPicks : L_NewRequest(p)

NextBatch == BatchRequest \/ L_FetchList \/ Advance

SpecBatch == InitBuffering /\ [][NextBatch]_vars

\* the polling client with two picks of one stream close in time
ClosePollingPick == \E p \in ClosePicks : P_ProcessPick(p)
ClosePollingSweep == \E held \in SUBSET CloseFeed : P_Sweep(held)

NextClose == ClosePollingPick \/ ClosePollingSweep \/ Advance

SpecClose == Init /\ [][NextClose]_vars

NextBare == BarePollingPick \/ PollingSweep \/ Advance

SpecBare == Init /\ [][NextBare]_vars

\* the buffering client with the archive request of processPick as a step
WaitingRecord == \E rec \in RecordFeed : W_HandleRecord(rec)
WaitingPick == \E p \in Picks : W_PickCalls(p)

NextWaiting == WaitingRecord \/ WaitingPick \/ W_FetchReturns \/ Advance

SpecWaiting == InitBuffering /\ [][NextWaiting]_vars

(************************ notions used by the claims ***********************)

Objects == 1..Len(items)

\* the request object is in the by-key index
InByKey(o) ==
    \E k \in DOMAIN request_by_nslc : InList(request_by_nslc[k], o)

\* the request object is in the by-pick index
InByPick(o) == \E pid \in DOMAIN request : request[pid] = o

Pending(o) == InByKey(o) \/ InByPick(o)

WasExported(o) == InList(exported, o)

\* the component has a high-water mark at or past the end of the window
Reached(o, c) ==
    /\ items[o].nslc \in DOMAIN end_time
    /\ c \in DOMAIN end_time[items[o].nslc]
    /\ end_time[items[o].nslc][c] >= items[o].end_time

\* the satisfiability test of the specification: every required component
Satisfiable(o) == \A c \in items[o].components : Reached(o, c)

\* the processData calls of the step
DoneInStep == SubSeq(exported', Len(exported) + 1, Len(exported'))

Position(seq, x) == CHOOSE i \in 1..Len(seq) : seq[i] = x

(********************************* C1 **************************************)

\* C1: a request is marked completed by the live matching pass only if every
\* required component has a high-water mark at or past the end of its
\* window; a required component with no buffered record keeps it pending.
C1_CompletedOnlyWhenEveryComponentReached ==
    \A o \in Objects : items[o].finished => Satisfiable(o)

(********************************* C2 **************************************)

\* C2: the by-pick mapping holds as many entries as the lists of the by-key
\* mapping together, in every reachable state, and the assertion of
\* processData never fails.
C2_IndexCountsAgree ==
    /\ CountsAgree(request, request_by_nslc)
    /\ err # "AssertionError"

(********************************* C3 **************************************)

\* C3: delivering a pick whose identity already has a pending request leaves
\* that request as it is (same object, same window, same expiry) and adds no
\* entry to the by-pick mapping or to the by-key list.
C3_DuplicatePickIsNoOp ==
    [][\A p \in Picks :
         (S_ProcessPick(p) /\ p.id \in DOMAIN request)
            => /\ DOMAIN request' = DOMAIN request
               /\ request'[p.id] = request[p.id]
               /\ items'[request[p.id]] = items[request[p.id]]
               /\ request_by_nslc' = request_by_nslc]_vars

(********************************* C4 **************************************)

\* C4: a request for components {Z, N, E} whose Z and N records reached the
\* end of the window while no E record ever arrived is not completed and not
\* handed to export.
C4_MissingComponentNeverCompleted ==
    \A o \in Objects :
        (/\ items[o].components = {"Z", "N", "E"}
         /\ Reached(o, "Z") /\ Reached(o, "N")
         /\ "E" \notin DOMAIN end_time[items[o].nslc])
            => ~items[o].finished /\ ~WasExported(o)

(********************************* C5 **************************************)

\* the periodic sweep ran in the step
SweepRan == next_cleanup' # next_cleanup

\* C5: a request still incomplete after its expiry deadline is removed from
\* the index by the periodic sweep: no sweep leaves an expired request in
\* the index.
C5_SweepRemovesExpired ==
    [][SweepRan =>
         \A o \in 1..Len(items') :
            (now' > items'[o].expires) =>
                /\ \A k \in DOMAIN request_by_nslc' :
                      ~InList(request_by_nslc'[k], o)
                /\ \A pid \in DOMAIN request' : request'[pid] # o]_vars

(********************************* C6 **************************************)

\* C6: when a matching pass returns, no request of the record's stream that
\* passes the completion test of the pass is still pending.
C6_PassCompletesAllSatisfiable ==
    [][\A rec \in RecordFeed :
         (S_HandleRecord(rec) /\ err' = "none"
            /\ rec.nslc \in DOMAIN request_by_nslc')
            => \A i \in 1..Len(request_by_nslc'[rec.nslc]) :
                  ~Finished(end_time'[rec.nslc],
                            items'[request_by_nslc'[rec.nslc][i]])]_vars

(********************************* C7 **************************************)

\* C7: of two requests of one stream that both pass the completion test of a
\* matching pass, the one registered first is handed to export first.
C7_ExportInRegistrationOrder ==
    [][\A rec \in RecordFeed :
         (S_HandleRecord(rec) /\ rec.nslc \in DOMAIN request_by_nslc)
            => LET lst == request_by_nslc[rec.nslc]
               IN \A i, j \in 1..Len(lst) :
                     (/\ i < j
                      /\ Finished(end_time'[rec.nslc], items[lst[i]])
                      /\ Finished(end_time'[rec.nslc], items[lst[j]])
                      /\ InList(DoneInStep, lst[j]))
                        => /\ InList(DoneInStep, lst[i])
                           /\ Position(DoneInStep, lst[i])
                                < Position(DoneInStep, lst[j])]_vars

(********************************* C8 **************************************)

\* C8: in the buffering client a pick for a stream with no high-water mark
\* at all goes to the archive at once and is not inserted into the by-pick
\* or the by-key index.
C8_UnseenStreamNeverRegistered ==
    [][\A p \in Picks :
         (/\ B_ProcessPick(p)
          /\ p.nslc \in DOMAIN components
          /\ p.nslc \notin DOMAIN end_time)
            => /\ fetches' = fetches + 1
               /\ request' = request
               /\ request_by_nslc' = request_by_nslc]_vars

(********************************* C9 **************************************)

\* the request object is in neither index after the step
RetiredAfterStep(o) ==
    /\ \A k \in DOMAIN request_by_nslc' : ~InList(request_by_nslc'[k], o)
    /\ \A pid \in DOMAIN request' : request'[pid] # o

\* C9: every archive fetch of a request ends with the request marked
\* finished, handed to processData and removed from both indices, whatever
\* the archive returned: the fetch of processPick for the new request, and
\* the fetches of a matching pass for the requests it worked on.
C9_DispatchCompletesExportsRetires ==
    [][/\ \A p \in Picks :
            (B_ProcessPick(p) /\ fetches' = fetches + 1)
               => LET o == Len(items')
                  IN /\ items'[o].finished
                     /\ InList(exported', o)
                     /\ RetiredAfterStep(o)
       /\ \A rec \in RecordFeed :
            (B_HandleRecord(rec) /\ fetches' > fetches /\ err' = "none")
               => \A i \in 1..Len(DoneInStep) :
                     /\ items'[DoneInStep[i]].finished
                     /\ RetiredAfterStep(DoneInStep[i])]_vars

(********************************* C10 *************************************)

RECURSIVE Count(_, _)
Count(seq, x) ==
    IF seq = <<>> THEN 0
    ELSE (IF Head(seq) = x THEN 1 ELSE 0) + Count(Tail(seq), x)

MarkCoversBuffer(buf, et) ==
    \A k \in DOMAIN buf : \A c \in DOMAIN buf[k] :
        /\ k \in DOMAIN et
        /\ c \in DOMAIN et[k]
        /\ \A i \in 1..Len(buf[k][c]) : buf[k][c][i].endTime <= et[k][c]

\* C11: for every stream and component the end time kept in end_time never
\* decreases, and it is at or past the end time of every record the buffer
\* retains for that component, also when records arrive out of order and
\* after a trim.
C11_HighWaterMarkMonotone ==
    [][/\ \A k \in DOMAIN end_time : \A c \in DOMAIN end_time[k] :
             /\ k \in DOMAIN end_time'
             /\ c \in DOMAIN end_time'[k]
             /\ end_time'[k][c] >= end_time[k][c]
       /\ MarkCoversBuffer(buffer', end_time')]_vars

\* a record arrived behind its component's end time, and a trim has run
C11_Witness ==
    /\ next_cleanup > StartTime + cleanup_interval
    /\ \E k \in DOMAIN buffer : \E c \in DOMAIN buffer[k] :
          /\ buffer[k][c] # <<>>
          /\ buffer[k][c][Len(buffer[k][c])].endTime < end_time[k][c]

(********************************* C12 *************************************)

\* the records of a list with end >= t1 and start <= t2, in list order
InWindow(lst, t1, t2) ==
    SelectSeq(lst, LAMBDA r : r.endTime >= t1 /\ r.startTime <= t2)

\* C12: a request with window [t1, t2] that the matching pass of the
\* streaming client completes from the buffer carries, for each required
\* component, exactly the buffered records of that component with end >= t1
\* and start <= t2 (no entry where the buffer has no such component): all
\* of them, and none that ends before t1 or starts after t2.
C12_LiveDataIsTheOverlap ==
    [][\A rec \in RecordFeed :
         S_HandleRecord(rec)
            => LET live == StoreRecord(buffer, rec)[rec.nslc]
               IN \A i \in 1..Len(DoneInStep) :
                    LET o == DoneInStep[i]
                        data == items'[o].data
                    IN \A c \in items[o].components :
                          IF c \in DOMAIN live
                          THEN /\ c \in DOMAIN data
                               /\ data[c] = InWindow(live[c],
                                     items[o].start_time, items[o].end_time)
                          ELSE c \notin DOMAIN data]_vars

\* a completed request holds a record, and the buffer it was taken from
\* holds one record that ends before the window and one that starts after it
C12_Witness ==
    \E o \in Objects :
        /\ WasExported(o)
        /\ "Z" \in DOMAIN items[o].data
        /\ items[o].data["Z"] # <<>>
        /\ items[o].nslc \in DOMAIN buffer
        /\ "Z" \in DOMAIN buffer[items[o].nslc]
        /\ LET lst == buffer[items[o].nslc]["Z"]
           IN /\ \E i \in 1..Len(lst) : lst[i].endTime < items[o].start_time
              /\ \E i \in 1..Len(lst) : lst[i].startTime > items[o].end_time

(********************************* C13 *************************************)

\* the smallest end time kept for the components of a stream
MinMark(etk) == MinOf({ etk[c] : c \in DOMAIN etk })

\* C13: the trim never discards a record whose end time is greater than the
\* smallest end time kept for the stream's components minus buffer_length:
\* every such record that is in the buffer when a record handler runs is
\* still there when the handler returns, whatever the arrival order.
C13_TrimKeepsRecent ==
    [][\A rec \in RecordFeed :
         S_HandleRecord(rec)
            => LET buf1 == StoreRecord(buffer, rec)
               IN \A k \in DOMAIN buf1 : \A c \in DOMAIN buf1[k] :
                     \A i \in 1..Len(buf1[k][c]) :
                        buf1[k][c][i].endTime
                              > MinMark(end_time'[k]) - buffer_length
                           => InList(buffer'[k][c], buf1[k][c][i])]_vars

\* a trim has discarded a record and kept another
C13_Witness ==
    /\ next_cleanup > StartTime + cleanup_interval
    /\ \E k \in DOMAIN buffer :
          /\ SumLen(buffer[k], DOMAIN buffer[k]) > 0
          /\ SumLen(buffer[k], DOMAIN buffer[k]) < nrecs
          /\ \A k2 \in DOMAIN buffer : k2 = k

(********************************* C14 *************************************)

\* C14: buffered records that fell behind the retention span are discarded
\* in the end, because the trim runs for every buffered stream once the
\* cleanup interval has elapsed, also for streams no pick was registered
\* for: a record handler that runs at or after next_cleanup runs the trim
\* and moves next_cleanup one interval on.
C14_TrimRunsWhenDue ==
    [][\A rec \in RecordFeed :
         (S_HandleRecord(rec) /\ CleanupDue(now) /\ err' = "none")
            => next_cleanup' = now + cleanup_interval]_vars

(********************************* C15 *************************************)

\* C15: no sequence of picks and timer sweeps ends the run with an
\* exception that leaves a handler (KeyError, ValueError, IndexError,
\* AssertionError); the sweep of the polling client removes an expired
\* request without error also when it received no record of its stream.
C15_NoUnhandledError ==
    err \notin {"KeyError", "ValueError", "IndexError", "AssertionError"}

(********************************* C16 *************************************)

\* C16: retiring a request that is already absent from the indices is a
\* no-op and not an error: a second retirement attempt for a pick identity
\* whose entry is gone leaves the indices as they are and raises nothing.
C16_SecondRetirementIsNoOp ==
    [][\A rec \in RecordFeed :
         O_HandleRecord(rec) => err' \notin {"KeyError", "ValueError"}]_vars

\* the retirement of handleRecord never finds the pick identity gone
RetirementFindsEntry == err # "KeyError"

(********************************* C17 *************************************)

\* the request object left self.request without being finished
Dropped(o) == ~InByPick(o) /\ ~items[o].finished

\* C17: a request the polling client removed because its expiry deadline
\* passed is never marked completed and never handed to export, and no
\* later sweep takes it up again: once a request object has left the index
\* unfinished, every later step leaves it unfinished, unexported, out of the
\* index and out of the requests a sweep queries.
C17_ExpiredStaysDropped ==
    [][\A o \in Objects :
         Dropped(o)
            => /\ ~items'[o].finished
               /\ ~InList(exported', o)
               /\ \A pid \in DOMAIN request' : request'[pid] # o
               /\ o \notin RequestItemsDue(request', items', now')]_vars

\* a sweep removed a request past its deadline (its pick was delivered once,
\* so it was not replaced), and a later pick was registered after it
C17_Witness ==
    \E o \in Objects :
        /\ Dropped(o)
        /\ err = "none"
        /\ now > items[o].expires
        /\ \A o2 \in Objects : o2 # o => items[o2].pick # items[o].pick
        /\ \E o2 \in Objects : o2 > o /\ InByPick(o2)

(********************************* C18 *************************************)

\* the archive holds two of the three components the request requires
PartialArchive(o) ==
    archive = {"Z", "N"} /\ items'[o].components = {"Z", "N", "E"}

\* what the matching pass of the step took from the buffer for the request
LiveData(rec, o) ==
    ExtractData(cleanup_all(StoreRecord(buffer, rec), next_cleanup)
                    .buffer[rec.nslc], items[o])

\* the pass had to fetch for the request: a required component was missing
\* or empty in what the buffer gave
FetchedInPass(rec, o) ==
    Incomplete([items[o] EXCEPT !.data = LiveData(rec, o)])

\* after the step the request is finished and holds, for each required
\* component, what it held before the fetch followed by the records the
\* archive returned
HoldsFetched(o, before) ==
    /\ items'[o].finished
    /\ \A c \in items'[o].components :
          /\ c \in DOMAIN items'[o].data
          /\ items'[o].data[c]
               = (IF c \in DOMAIN before THEN before[c] ELSE <<>>)
                    \o ArchiveRecords(items'[o], archive)[c]

\* C18 (as amended): when the archive returns records of only two of the
\* three required components the request is still finished, and its data
\* holds, for each of the two, what the matching pass took from the buffer
\* followed by the returned records, and for the third only what the buffer
\* gave (an empty entry when it gave nothing).
C18_PartialArchiveKeepsLive ==
    [][/\ \A p \in Picks :
            (B_ProcessPick(p) /\ fetches' = fetches + 1
               /\ PartialArchive(Len(items')))
               => HoldsFetched(Len(items'), EmptyDict)
       /\ \A rec \in RecordFeed :
            B_HandleRecord(rec)
               => \A i \in 1..Len(DoneInStep) :
                     (PartialArchive(DoneInStep[i])
                        /\ FetchedInPass(rec, DoneInStep[i]))
                        => HoldsFetched(DoneInStep[i],
                                        LiveData(rec, DoneInStep[i]))]_vars

\* C18 (as stated): the same, with the data holding exactly the returned
\* records for the two components and an empty entry for the third.
C18_PartialArchiveExactly ==
    [][/\ \A p \in Picks :
            (B_ProcessPick(p) /\ fetches' = fetches + 1
               /\ PartialArchive(Len(items')))
               => HoldsFetched(Len(items'), EmptyDict)
       /\ \A rec \in RecordFeed :
            B_HandleRecord(rec)
               => \A i \in 1..Len(DoneInStep) :
                     (PartialArchive(DoneInStep[i])
                        /\ FetchedInPass(rec, DoneInStep[i]))
                        => HoldsFetched(DoneInStep[i], EmptyDict)]_vars

\* a request was exported after a fetch from an archive holding Z and N
\* only: it is finished, Z holds a buffered and a returned record, N the
\* returned record, E nothing
C18_Witness ==
    /\ archive = {"Z", "N"}
    /\ \E o \in Objects :
          /\ WasExported(o)
          /\ items[o].finished
          /\ items[o].components = {"Z", "N", "E"}
          /\ DOMAIN items[o].data = {"Z", "N", "E"}
          /\ Len(items[o].data["Z"]) = 2
          /\ Len(items[o].data["N"]) = 1
          /\ items[o].data["E"] = <<>>

(********************************* C19 *************************************)

\* C19: in the buffering client a new request goes to the archive when it is
\* created if and only if (a) its stream has no end time at all, or (b) its
\* window ends before the smallest end time of the stream minus half of
\* buffer_length; in every other case it is only registered.
C19_ArchiveRouting ==
    [][\A p \in Picks :
         (B_ProcessPick(p) /\ p.nslc \in DOMAIN components)
            => LET o == Len(items')
                   k == p.nslc
                   routed ==
                       \/ k \notin DOMAIN end_time
                       \/ \A c \in DOMAIN end_time[k] :
                             2 * (end_time[k][c] - (p.time + after_p))
                                > buffer_length
               IN /\ request'[p.id] = o
                  /\ InList(request_by_nslc'[k], o)
                  /\ IF routed
                     THEN fetches' = fetches + 1 /\ items'[o].finished
                     ELSE fetches' = fetches /\ ~items'[o].finished
                            /\ items'[o].data = EmptyDict]_vars

\* a request was created for a stream whose only end time was 7200 and went
\* to the archive by (b): had it been created before the record arrived, the
\* record's matching pass would have exported it
C19_Witness ==
    /\ nrecs = 1
    /\ end_time = [S1 |-> [Z |-> 7200]]
    /\ exported = <<>>
    /\ fetches = 1
    /\ \E o \in Objects : items[o].finished /\ items[o].nslc = "S1"

(********************************* C20 *************************************)

\* C20: a pick whose stream is not in components is silently ignored:
\* processPick leaves the by-pick index, the by-key index, the request
\* objects, the buffers and the end times as they are, fetches nothing from
\* the archive and raises nothing.
C20_UnknownStreamIgnored ==
    [][\A p \in Picks :
         (/\ p.nslc \notin DOMAIN components
          /\ S_ProcessPick(p) \/ B_ProcessPick(p) \/ P_ProcessPick(p))
            => UNCHANGED <<request, request_keys, request_by_nslc, items,
                           buffer, end_time, fetches, exported, err>>]_vars

\* a pick of an unknown stream can be delivered while requests are pending
\* and records are buffered (the delivery leaves no trace in the state, so
\* the state it is delivered in is the state after it)
C20_Witness ==
    /\ request # EmptyDict
    /\ buffer # EmptyDict
    /\ ENABLED (\E p \in Picks :
                   p.nslc \notin DOMAIN components /\ B_ProcessPick(p))

(********************************* C21 *************************************)

\* C21: a pick whose required component set is empty is rejected when it is
\* created: processPick never puts a request with an empty components set
\* into the index, so no pending request has zero required components.
C21_NoPendingRequestWithoutComponents ==
    \A pid \in DOMAIN request : items[request[pid]].components # {}

(********************************* C22 *************************************)

\* C22: the archive fetch does not run inside the serialized region that
\* guards the buffers and the indices: while the fetch for one request is
\* waiting for the archive, a record can be ingested and a pick can be
\* registered (as far as the bounds of the model leave room for one).
C22_HandlersRunDuringFetch ==
    (/\ fetching # 0
     /\ err = "none"
     /\ nrecs < MaxRecords
     /\ Len(items) < MaxBufferingPicks)
        => ENABLED WaitingRecord /\ ENABLED WaitingPick

(********************************* C23 *************************************)

\* the streams and windows of the pending requests whose pick time is more
\* than after_p before t
QueryOfDuePending(t) ==
    UNION { { <<items[request[pid]].nslc, c,
                items[request[pid]].start_time,
                items[request[pid]].end_time>> :
                  c \in items[request[pid]].components } :
            pid \in { q \in DOMAIN request :
                        PickTime(items[request[q]]) + after_p < t } }

\* C23: a sweep of the polling client, in whatever state it starts, asks for
\* exactly the pending requests whose pick time is more than after_p before
\* now, and for none that left the index; a request a sweep asks for and
\* that stays in the index is asked for by every following sweep, until it
\* is finished or expired.
C23_SweepQueriesDuePending ==
    [][/\ Query(items, RequestItemsDue(request, items, now))
            = QueryOfDuePending(now)
       /\ \A pid \in DOMAIN request :
            (/\ request[pid] \in RequestItemsDue(request, items, now)
             /\ pid \in DOMAIN request'
             /\ request'[pid] = request[pid])
               => request[pid] \in RequestItemsDue(request', items', now')]_vars

\* a sweep has finished one request while another, asked for as well, stays
\* pending and is asked for by the next sweep
C23_Witness ==
    /\ err = "none"
    /\ \E o1, o2 \in Objects :
          /\ items[o1].finished
          /\ InByPick(o2)
          /\ ~items[o2].finished
          /\ o2 \in RequestItemsDue(request, items, now)
          /\ Query(items, RequestItemsDue(request, items, now)) # {}

(********************************* C24 *************************************)

\* the records a sweep of the polling client receives when the server holds
\* held
Received(held) ==
    { r \in held :
        Requested(r, items, RequestItemsDue(request, items, now)) }

\* the sweep received a record of the request's stream and component that
\* ends at or after the end of the request's window
CoveredBy(recs, o, c) ==
    \E r \in recs :
        /\ r.nslc = items[o].nslc
        /\ r.comp = c
        /\ r.endTime >= items[o].end_time

\* C24: a sweep of the polling client marks a request finished only if for
\* every required component it received a record of that component and the
\* latest end time received for it is at or after the end of the request's
\* window; a request one of whose required components returned no such
\* record is not finished and, unless its deadline has passed, stays in the
\* index.
C24_FinishedOnlyWhenAllReceived ==
    [][\A held \in SUBSET PollFeed :
         P_Sweep(held)
            => \A pid \in DOMAIN request :
                  LET o == request[pid]
                      complete == \A c \in items[o].components :
                                     CoveredBy(Received(held), o, c)
                  IN /\ items'[o].finished => complete
                     /\ (~complete /\ ~Expired(items[o], now))
                           => /\ pid \in DOMAIN request'
                              /\ request'[pid] = o]_vars

\* a sweep finished a request of three components while a later request of
\* the same stream stays pending
C24_Witness ==
    \E o1, o2 \in Objects :
        /\ items[o1].finished
        /\ items[o1].components = {"Z", "N", "E"}
        /\ ~InByPick(o1)
        /\ InByPick(o2)
        /\ ~items[o2].finished
        /\ items[o2].nslc = items[o1].nslc

(********************************* C25 *************************************)

\* what the matching pass took from the buffer lacks a required component
\* or holds an empty list for one
LiveDataLacks(rec, o) ==
    \E c \in items[o].components :
        \/ c \notin DOMAIN LiveData(rec, o)
        \/ LiveData(rec, o)[c] = <<>>

\* s is the beginning of t
IsPrefix(s, t) == Len(s) <= Len(t) /\ SubSeq(t, 1, Len(s)) = s

\* C25: in the buffering client, when the live path completes a request of
\* which a required component is absent from the data taken from the buffer
\* or has an empty record list, an archive fetch for that request is made
\* before the export; the exported request then has an entry for every
\* required component, and the records taken from the buffer are still
\* there, ahead of what the archive returned.  A request the buffer served
\* in full is exported without a fetch.
C25_FetchBeforeExportKeepsLive ==
    [][\A rec \in RecordFeed :
         B_HandleRecord(rec)
            => /\ fetches' - fetches
                    = Cardinality({ i \in 1..Len(DoneInStep) :
                                      LiveDataLacks(rec, DoneInStep[i]) })
               /\ \A i \in 1..Len(DoneInStep) :
                     LET o == DoneInStep[i]
                         live == LiveData(rec, o)
                     IN IF LiveDataLacks(rec, o)
                        THEN \A c \in items[o].components :
                                /\ c \in DOMAIN items'[o].data
                                /\ c \in DOMAIN live
                                      => IsPrefix(live[c], items'[o].data[c])
                        ELSE items'[o].data = live]_vars

\* a request was exported after a fetch from an archive holding all three
\* components: Z holds the buffered record and then the returned one, N
\* and E the returned record
C25_Witness ==
    /\ archive = {"Z", "N", "E"}
    /\ \E o \in Objects :
          /\ WasExported(o)
          /\ items[o].components = {"Z", "N", "E"}
          /\ DOMAIN items[o].data = {"Z", "N", "E"}
          /\ Len(items[o].data["Z"]) = 2
          /\ items[o].data["Z"][2]
                = Rec(items[o].nslc, "Z", items[o].start_time,
                      items[o].end_time)
          /\ items[o].data["Z"][1] # items[o].data["Z"][2]
          /\ Len(items[o].data["N"]) = 1
          /\ Len(items[o].data["E"]) = 1

(********************************* C26 *************************************)

\* C26: when fetchArchiveData is given a list of several requests, each
\* request receives the archive's records of its own stream, components and
\* window, and no record that belongs to another request of the list, also
\* when two requests of the list name the same stream.
C26_EachRequestGetsItsOwnRecords ==
    [][(L_FetchList /\ Len(items) >= 2)
          => \A i \in 1..Len(items) :
                /\ DOMAIN items'[i].data = items[i].components
                /\ \A c \in items[i].components :
                      items'[i].data[c]
                         = ArchiveRecords(items[i], archive)[c]]_vars

(********************************* C27 *************************************)

\* C27: with buffer_length > 0 every component list that exists in the
\* buffer is non-empty in every reachable state: a trim never empties a
\* component's list, so the access of cleanup_stream to the last record of
\* a list never fails.
C27_BufferedListsNonEmpty ==
    /\ buffer_length > 0
    /\ \A k \in DOMAIN buffer : \A c \in DOMAIN buffer[k] :
          buffer[k][c] # <<>>
    /\ ~TrimFails(buffer)
    /\ err # "IndexError"

\* a trim has run on a stream of which only component Z was received, has
\* discarded the old record and left the list with its newest record
C27_Witness ==
    /\ err = "none"
    /\ next_cleanup > StartTime + cleanup_interval
    /\ nrecs >= 2
    /\ DOMAIN buffer = {"S1"}
    /\ DOMAIN buffer["S1"] = {"Z"}
    /\ buffer["S1"]["Z"] = <<Rec("S1", "Z", 7080, 7200)>>

(********************************* C28 *************************************)

\* C28: a sweep of the polling client marks a request finished and removes
\* it only if the request was among the due requests the sweep asked for
\* (its pick time is more than after_p before now): the records returned
\* for another request of the same stream never finish a request that is
\* not yet due.
C28_OnlyDueRequestsFinish ==
    [][\A held \in SUBSET CloseFeed :
         P_Sweep(held)
            => \A pid \in DOMAIN request :
                  LET o == request[pid]
                  IN items'[o].finished
                        => /\ PickTime(items[o]) + after_p < now
                           /\ \A c \in items[o].components :
                                 <<items[o].nslc, c, items[o].start_time,
                                   items[o].end_time>>
                                     \in Query(items,
                                           RequestItemsDue(request, items, now))]_vars

====
